---- MODULE Spec2Model ----
(***************************************************************************)
(* Model of reaction_finder.py: the search-and-rank pipeline               *)
(* (search_and_analyze, fetch_message_details, get_user_name) as a state   *)
(* machine with one action per remote call made by the pipeline.           *)
(***************************************************************************)
EXTENDS Integers, Sequences, FiniteSets, TLC

VARIABLES
    pc,                       \* position inside main / search_and_analyze
    max_results,              \* args.max, the target count
    target_emoji,             \* args.emoji
    all_matches,              \* accumulator of search matches (match = its ts)
    page,                     \* 1-based page counter
    calls,                    \* search_messages calls issued so far, in order
    lastPage,                 \* the last search response as the loop read it
    i,                        \* matches handed to fetch_message_details so far
    details,                  \* return value of each fetch_message_details call
    messages_with_reactions,  \* the list the for loop appends to
    last,                     \* the last fetch_message_details call, in and out
    notices,                  \* warnings printed by fetch_message_details
    users_info_calls,         \* users_info calls issued so far
    error,                    \* the exception that left search_and_analyze, if any
    result,                   \* the list search_and_analyze returned, if any
    msgOutcomes,              \* how the remote may answer one message's lookups
    remote,                   \* how the search endpoint of this run behaves
    twin,                     \* a second run, served the same pages of matches
    args,                     \* the date options: args.on, after, before, days
    today,                    \* the day datetime.now() falls on
    date_query,               \* the fragment build_date_query returned, if any
    date_error                \* the ValueError build_date_query raised, if any

vars == <<pc, max_results, target_emoji, all_matches, page, calls, lastPage, i,
          details, messages_with_reactions, last, notices, users_info_calls,
          error, result, msgOutcomes, remote, twin, args, today, date_query,
          date_error>>

(***************************************************************************)
(* Bounds of the model and constants of the program.                       *)
(***************************************************************************)
API_MAX_PER_PAGE == 100

\* targets of the small pipeline runs: 1..MaxTarget
MaxTarget == 3
\* a page may hold up to MaxOver matches more than were requested
MaxOver == 1
\* reaction counts on a message: 1..MaxCount
MaxCount == 2
\* length of a message's reaction list: 0..MaxReactions
MaxReactions == 2
\* multi-page targets span 1..MaxPages full pages
MaxPages == 2
\* trailing windows of -MaxDays..MaxDays days
MaxDays == 2

Min(a, b) == IF a <= b THEN a ELSE b
Max(a, b) == IF a >= b THEN a ELSE b

\* An optional value: absent, or one value.
None == <<>>
Some(x) == <<x>>
IsSome(o) == Len(o) = 1
The(o) == o[1]

Emojis == {"tada", "thumbsup"}
Counts == 1..MaxCount

(***************************************************************************)
(* Dates: datetime.strptime(s, '%Y-%m-%d'), timedelta, strftime.           *)
(***************************************************************************)
\* a date option as typed: year-month-day, zero-padded or not, or no date
DateText(y, m, d, padded) == [kind |-> "ymd", y |-> y, m |-> m, d |-> d, padded |-> padded]
Junk == [kind |-> "junk", y |-> 0, m |-> 0, d |-> 0, padded |-> FALSE]

IsLeap(y) == (y % 4 = 0 /\ y % 100 # 0) \/ y % 400 = 0
DaysInMonth(y, m) ==
    IF m = 2 THEN (IF IsLeap(y) THEN 29 ELSE 28)
    ELSE IF m \in {4, 6, 9, 11} THEN 30 ELSE 31
\* the days of year y before its month m
DaysBeforeMonth(y, m) ==
    <<0, 31, 59, 90, 120, 151, 181, 212, 243, 273, 304, 334>>[m]
        + (IF m > 2 /\ IsLeap(y) THEN 1 ELSE 0)
\* the days before January 1st of year y, counted from 0001-01-01
DaysBeforeYear(y) == 365 * (y - 1) + (y - 1) \div 4 - (y - 1) \div 100 + (y - 1) \div 400
\* a datetime at midnight, as its proleptic Gregorian ordinal
Ordinal(y, m, d) == DaysBeforeYear(y) + DaysBeforeMonth(y, m) + d
YearOf(n) ==
    CHOOSE y \in (n \div 366)..(n \div 365 + 1) :
        DaysBeforeYear(y) < n /\ n <= DaysBeforeYear(y + 1)
MonthOf(n) ==
    LET y == YearOf(n)
    IN  CHOOSE m \in 1..12 :
            /\ DaysBeforeYear(y) + DaysBeforeMonth(y, m) < n
            /\ n <= DaysBeforeYear(y) + DaysBeforeMonth(y, m) + DaysInMonth(y, m)

\* datetime.strptime(s, DATE_FORMAT): the datetime, None for a ValueError;
\* %m and %d take one or two digits, so "2024-3-1" parses
strptime(s) ==
    IF /\ s.kind = "ymd"
       /\ s.y \in 1..9999
       /\ s.m \in 1..12
       /\ s.d \in 1..DaysInMonth(s.y, s.m)
    THEN Some(Ordinal(s.y, s.m, s.d))
    ELSE None

\* date.strftime(DATE_FORMAT): always zero-padded
strftime(n) ==
    LET y == YearOf(n)
        m == MonthOf(n)
    IN  DateText(y, m, n - DaysBeforeYear(y) - DaysBeforeMonth(y, m), TRUE)

(***************************************************************************)
(* build_date_query.                                                       *)
(***************************************************************************)
NoDateError == [field |-> "", values |-> <<>>]
\* one restriction of the fragment: f"{op}:{day}"
Term(op, day) == [op |-> op, day |-> day]
\* the function returns the fragment
Built(query) == [ok |-> TRUE, query |-> query, error |-> NoDateError]
\* the function raises ValueError; `values` are the dates its message quotes
Raises(field, values) ==
    [ok |-> FALSE, query |-> <<>>, error |-> [field |-> field, values |-> values]]

\* Python truth of an option: None and "" are false; of --days: None and 0
Given(option) == IsSome(option)
GivenDays(days) == IsSome(days) /\ The(days) # 0

\* a variant that never collapses a range of one day
DirectRange_NoCollapse(after, before) ==
    IF The(strptime(after)) > The(strptime(before))
    THEN Raises("order", <<after, before>>)
    ELSE Built(<<Term("after", after), Term("before", before)>>)

\* a variant that does not check the order
DirectRange_NoOrder(after, before) ==
    IF The(strptime(after)) = The(strptime(before))
    THEN Built(<<Term("on", after)>>)
    ELSE Built(<<Term("after", after), Term("before", before)>>)

\* `if after_date and before_date:` with both dates parsed
DirectRange(after, before) ==
    IF The(strptime(after)) = The(strptime(before))
    THEN Built(<<Term("on", after)>>)
    ELSE IF The(strptime(after)) > The(strptime(before))
    THEN Raises("order", <<after, before>>)
    ELSE Built(<<Term("after", after), Term("before", before)>>)

\* the `if args.days:` branch
TrailingWindow(a, now) ==
    IF Given(a.before)
    THEN IF IsSome(strptime(The(a.before)))
         THEN Built(<<Term("after", strftime(The(strptime(The(a.before))) - The(a.days))),
                      Term("before", The(a.before))>>)
         ELSE Raises("before", <<>>)
    ELSE Built(<<Term("after", strftime(now - The(a.days)))>>)

\* the `elif args.after or args.before:` branch
ExplicitRange(a) ==
    IF Given(a.after) /\ ~IsSome(strptime(The(a.after))) THEN Raises("after", <<>>)
    ELSE IF Given(a.before) /\ ~IsSome(strptime(The(a.before))) THEN Raises("before", <<>>)
    ELSE IF Given(a.after) /\ Given(a.before) THEN DirectRange(The(a.after), The(a.before))
    ELSE IF Given(a.after) THEN Built(<<Term("after", The(a.after))>>)
    ELSE Built(<<Term("before", The(a.before))>>)

build_date_query(a, now) ==
    IF Given(a.on)
    THEN IF IsSome(strptime(The(a.on)))
         THEN Built(<<Term("on", The(a.on))>>)
         ELSE Raises("on", <<>>)
    ELSE IF GivenDays(a.days) THEN TrailingWindow(a, now)
    ELSE IF Given(a.after) \/ Given(a.before) THEN ExplicitRange(a)
    ELSE Built(<<>>)

\* the date options tried: days around the end of February of a leap year,
\* one of them typed without padding, a day no month has, a text that is no
\* date, and the last day of the year
DateTexts ==
    {DateText(2024, 2, 28, TRUE), DateText(2024, 2, 29, TRUE),
     DateText(2024, 3, 1, TRUE), DateText(2024, 3, 1, FALSE),
     DateText(2024, 2, 30, TRUE), Junk, DateText(2024, 12, 31, TRUE)}
DateOptions == {None} \cup {Some(s) : s \in DateTexts}
DaysOptions == {None} \cup {Some(n) : n \in (-MaxDays..MaxDays) \cup {90}}
NoDateArgs == [on |-> None, after |-> None, before |-> None, days |-> None]
\* parse_arguments rejects --on together with --after, --before or --days
DateArgs ==
    {a \in [on : DateOptions, after : DateOptions, before : DateOptions,
            days : DaysOptions] :
        Given(a.on) => ~(Given(a.after) \/ Given(a.before) \/ GivenDays(a.days))}
Todays == {Ordinal(2024, 3, 1), Ordinal(2025, 1, 1)}

(***************************************************************************)
(* search_and_analyze: the pagination loop.                                *)
(***************************************************************************)
\* a variant that forgets what is already accumulated
RequestCount_IgnoresAccumulated(acc, target) == Min(API_MAX_PER_PAGE, target)

\* count = min(API_MAX_PER_PAGE, max_results - len(all_matches))
RequestCount(acc, target) == Min(API_MAX_PER_PAGE, target - Len(acc))

\* the arguments of client.search_messages
SearchRequest(acc, target, pg) ==
    [sort |-> "timestamp", sort_dir |-> "desc",
     count |-> RequestCount(acc, target), page |-> pg]

\* The remote serves a newest-first list in pages of the requested size; a
\* match is identified by its position in that list (its ts).
ServedMatches(req, n) == [j \in 1..n |-> (req.page - 1) * req.count + j]

\* the sizes a page answered to a request of `count` items may have
PageSizes(count) ==
    {n \in {0, 1, count - 1, count, count + MaxOver, API_MAX_PER_PAGE} : n >= 0}

\* the total the endpoint reports beside a page, after `served` matches in all:
\* the matches it has served, or any number below or above what it returned
ReportedTotals(mode, served) ==
    IF mode = "served" THEN {served} ELSE {0, served, served + API_MAX_PER_PAGE}

\* total_matches = search_response["messages"]["total"]
ReadTotal(response) == response.total

\* a variant that believes the reported total over the page it was given
ReadMatches_UpToTotal(response) ==
    SubSeq(response.matches, 1, Min(Len(response.matches), response.total))

\* matches = search_response["messages"]["matches"]
ReadMatches(response) == response.matches

\* the sizes of the page the endpoint of this run may answer to `req`
PagesOffered(endpoint, req) ==
    IF IsSome(endpoint.list)
    THEN {Max(0, Min(req.count, The(endpoint.list) - (req.page - 1) * req.count))}
    ELSE PageSizes(req.count)

\* a variant that goes on after a short or empty page
LoopBreaks_OnlyAtTarget(matches, count, acc, target) == Len(acc) >= target

\* a variant that also stops on a page that is exactly full
LoopBreaks_OnFullPage(matches, count, acc, target) ==
    \/ Len(matches) <= count
    \/ Len(acc) >= target

\* `if not matches: break` and
\* `if len(matches) < count or len(all_matches) >= max_results: break`
LoopBreaks(matches, count, acc, target) ==
    \/ Len(matches) = 0
    \/ Len(matches) < count
    \/ Len(acc) >= target

\* a variant that does not truncate
SlicePrefix_Keep(s, n) == s

\* all_matches[:max_results], Python slice semantics
SlicePrefix(s, n) ==
    IF n >= 0 THEN SubSeq(s, 1, Min(n, Len(s)))
              ELSE SubSeq(s, 1, Max(Len(s) + n, 0))

(***************************************************************************)
(* The remote's answers to conversations_history and users_info.           *)
(***************************************************************************)
Entries == [name : Emojis, count : Counts]
ReactionLists(n) == UNION {[1..k -> Entries] : k \in 0..n}

TextOptions == {None, Some(""), Some("hello")}
UserOptions == {None, Some("U12345")}

\* a message record: optional reaction list, optional text, optional author
Messages(n, texts, users) ==
    [reactions : {None} \cup {Some(l) : l \in ReactionLists(n)},
     text : texts, user : users]

HistoryOk(msgs) == [kind |-> "ok", error |-> "", messages |-> msgs]
\* SlackApiError carrying response["error"]
HistoryApiError(code) == [kind |-> "api_error", error |-> code, messages |-> <<>>]
\* any exception that is not a SlackApiError (transport failure, timeout)
HistoryException == [kind |-> "exception", error |-> "", messages |-> <<>>]

HistoryFailures ==
    {HistoryApiError("channel_not_found"), HistoryApiError("rate_limited"),
     HistoryException}

HistoryResponses(n, texts, users) ==
    {HistoryOk(<<>>)} \cup {HistoryOk(<<m>>) : m \in Messages(n, texts, users)}
        \cup HistoryFailures

\* every answer, over reaction lists of up to MaxReactions entries
RichResponses == HistoryResponses(MaxReactions, TextOptions, UserOptions)
\* answers with at most one reaction, a text and an author
BasicResponses == HistoryResponses(1, {Some("hello")}, {Some("U12345")})
\* one answer of each kind, for the runs that page
PagingResponses ==
    {HistoryOk(<<>>),
     HistoryOk(<<[reactions |-> Some(<<[name |-> "tada", count |-> 1]>>),
                 text |-> Some("hello"), user |-> Some("U12345")]>>),
     HistoryApiError("rate_limited"),
     HistoryException}

\* users_info answers with the user's real_name, or raises
RealName(user_id) == IF user_id = "U12345" THEN "John Doe" ELSE "Unknown"
\* users_info knows the user and answers, or raises; it knows no user ""
LookupOutcomes(user_id) == IF user_id = "" THEN {"fail"} ELSE {"ok", "fail"}

(***************************************************************************)
(* get_user_name and fetch_message_details.                                *)
(***************************************************************************)
\* a variant that gives up the identifier when the lookup fails
get_user_name_Blank(lookup, user_id) ==
    IF lookup = "ok" THEN RealName(user_id) ELSE ""

\* try: return users_info(...)["user"]["real_name"]  except: return user_id
get_user_name(lookup, user_id) ==
    IF lookup = "ok" THEN RealName(user_id) ELSE user_id

\* message.get("user", "")
AuthorId(message) == IF IsSome(message.user) THEN The(message.user) ELSE ""

\* the default of message.get("text", ...)
NO_TEXT == "(no text)"
\* message.get("text", "(テキストなし)")
MessageText(message) == IF IsSome(message.text) THEN The(message.text) ELSE NO_TEXT

\* a variant that keeps scanning and settles on the last entry of that name
FirstReaction_Last(reactions, emoji) ==
    LET hits == {k \in 1..Len(reactions) : reactions[k].name = emoji}
    IN  IF hits = {} THEN 0 ELSE CHOOSE k \in hits : \A h \in hits : h <= k

\* `for reaction in message["reactions"]: if reaction["name"] == target_emoji`:
\* the index of the entry the loop returns at, 0 when it runs to its end
FirstReaction(reactions, emoji) ==
    LET hits == {k \in 1..Len(reactions) : reactions[k].name = emoji}
    IN  IF hits = {} THEN 0 ELSE CHOOSE k \in hits : \A h \in hits : k <= h

\* a variant that reports every remote error
PrintsNotice_Always(code) == TRUE

\* `if e.response["error"] != "channel_not_found": print(...)`
PrintsNotice(code) == code # "channel_not_found"

\* the dict built at the return inside the loop
BuildDetail(message, username, reaction, match) ==
    [text |-> MessageText(message), user |-> username,
     count |-> reaction.count, timestamp |-> match]

Absent(noticed, didRaise) ==
    [detail |-> None, notice |-> noticed, raised |-> didRaise, lookups |-> 0]

\* fetch_message_details: what it returns (detail, None when absent), whether
\* it printed a notice, whether an exception left it, and its users_info calls
fetch_message_details(resp, lookup, match, emoji) ==
    IF resp.kind = "exception" THEN Absent(FALSE, TRUE)
    ELSE IF resp.kind = "api_error" THEN Absent(PrintsNotice(resp.error), FALSE)
    ELSE IF Len(resp.messages) = 0 THEN Absent(FALSE, FALSE)
    ELSE LET message == resp.messages[1] IN
         IF ~IsSome(message.reactions) THEN Absent(FALSE, FALSE)
         ELSE LET reactions == The(message.reactions)
                  k == FirstReaction(reactions, emoji)
              IN  IF k = 0 THEN Absent(FALSE, FALSE)
                  ELSE [detail |-> Some(BuildDetail(message,
                                        get_user_name(lookup, AuthorId(message)),
                                        reactions[k], match)),
                        notice |-> FALSE, raised |-> FALSE, lookups |-> 1]

\* the author the fetched message names, "" when it names none
AuthorOf(resp) ==
    IF resp.kind = "ok" /\ Len(resp.messages) > 0 THEN AuthorId(resp.messages[1]) ELSE ""

\* the remote's answers to the calls made for one match: conversations_history
\* and, should it be called, users_info
Answers(responses) ==
    UNION {{[resp |-> r, lookup |-> l] : l \in LookupOutcomes(AuthorOf(r))} :
           r \in responses}

(***************************************************************************)
(* messages_with_reactions.sort(key=lambda x: x["count"], reverse=True)    *)
(***************************************************************************)
\* a variant that sorts ascending and reverses: equal counts swap their order
SortByCountDesc_Reversed(s) ==
    LET n == Len(s)
        rank == SubSeq([k \in 1..n |->
                    1 + Cardinality({j \in 1..n :
                            \/ s[j].count > s[k].count
                            \/ s[j].count = s[k].count /\ j > k})], 1, n)
        at == SubSeq([p \in 1..n |-> CHOOSE k \in 1..n : rank[k] = p], 1, n)
    IN  SubSeq([p \in 1..n |-> s[at[p]]], 1, n)

\* list.sort is stable and reverse=True keeps the order of equal keys: a
\* record goes behind every record of a larger count and behind the earlier
\* records of its own count
SortByCountDesc(s) ==
    LET n == Len(s)
        rank == SubSeq([k \in 1..n |->
                    1 + Cardinality({j \in 1..n :
                            \/ s[j].count > s[k].count
                            \/ s[j].count = s[k].count /\ j < k})], 1, n)
        at == SubSeq([p \in 1..n |-> CHOOSE k \in 1..n : rank[k] = p], 1, n)
    IN  SubSeq([p \in 1..n |-> s[at[p]]], 1, n)

(***************************************************************************)
(* The run: main calls search_and_analyze(client, query, emoji, args.max). *)
(***************************************************************************)
NoPage == [requested |-> 0, returned |-> 0, accumulated |-> 0, total |-> 0]
\* a search endpoint whose pages may have any size and whose total is exact
AnyPages == [totals |-> "served", list |-> None]
\* the same, reporting totals that need not fit the matches it returns
AnyTotals == [totals |-> "any", list |-> None]
\* an endpoint serving a fixed newest-first list of `len` items: a call for
\* `count` items of page p is answered with the items (p-1)*count+1 .. p*count
FixedList(len) == [totals |-> "served", list |-> Some(len)]

NoFetch == [resp |-> HistoryOk(<<>>), lookup |-> "fail", detail |-> None,
            notice |-> FALSE]
\* which call raised, and what
NoError == [call |-> "", kind |-> ""]

\* targets that need more than one page
PagingTargets == {p * API_MAX_PER_PAGE + d : p \in 1..MaxPages, d \in {0, 1, 50}}

\* the lengths of the fixed lists
ListLengths == {p * API_MAX_PER_PAGE + d : p \in 0..MaxPages, d \in {0, 30}}
\* the targets run against a fixed list
ListTargets == PagingTargets \cup {API_MAX_PER_PAGE + 20}
\* every kind of target: not positive, small, of several pages
AllTargets == {-1, 0} \cup (1..MaxTarget) \cup PagingTargets

InitMain(targets, emojis, outcomeSets, remotes, dateArgs, todays) ==
    /\ pc = "main"
    /\ args \in dateArgs
    /\ today \in todays
    /\ date_query = None
    /\ date_error = NoDateError
    /\ max_results \in targets
    /\ target_emoji \in emojis
    /\ msgOutcomes \in outcomeSets
    /\ remote \in remotes
    /\ twin = [pc |-> "main", all_matches |-> <<>>, page |-> 1, calls |-> <<>>,
               total |-> 0]
    /\ all_matches = <<>>
    /\ page = 1
    /\ calls = <<>>
    /\ lastPage = NoPage
    /\ i = 0
    /\ details = <<>>
    /\ messages_with_reactions = <<>>
    /\ last = NoFetch
    /\ notices = 0
    /\ users_info_calls = 0
    /\ error = NoError
    /\ result = None

\* runs without date options
InitAll(targets, emojis, outcomeSets, remotes) ==
    InitMain(targets, emojis, outcomeSets, remotes, {NoDateArgs},
             {Ordinal(2024, 3, 1)})

InitRun(targets, emojis, outcomeSets) ==
    InitAll(targets, emojis, outcomeSets, {AnyPages})

\* parse_arguments rejects --max < 1
Init == InitRun(1..MaxTarget, Emojis, {Answers(BasicResponses)})
\* one match, resolved against every answer of the remote
InitFetch == InitRun({1}, Emojis, {Answers(RichResponses)})
\* targets of several pages; every message fetch of a run has the same answer
InitPaging == InitRun(PagingTargets, {"tada"}, {{a} : a \in Answers(PagingResponses)})
\* targets of several pages, against endpoints serving a fixed list
InitList ==
    InitAll(ListTargets, {"tada"}, {Answers({HistoryOk(<<>>)})},
            {FixedList(len) : len \in ListLengths})
\* every kind of target, whatever --max validation lets through
InitTargets == InitAll(AllTargets, {"tada"}, {Answers({HistoryOk(<<>>)})}, {AnyPages})
\* every combination of date options, ahead of a run for one match
InitDates ==
    InitMain({1}, {"tada"}, {Answers({HistoryOk(<<>>)})}, {AnyPages}, DateArgs,
             Todays)
\* targets of several pages, against an endpoint reporting arbitrary totals
InitTotals ==
    InitAll(PagingTargets, {"tada"}, {Answers({HistoryOk(<<>>)})}, {AnyTotals})

\* a variant that swallows the failure and goes on with what it has
OnSearchError_Salvage(kind) ==
    [pc |-> "truncate", error |-> [call |-> "search_messages", kind |-> kind]]

\* an exception raised by client.search_messages is not caught in
\* search_and_analyze: it leaves the function; main prints it and exits
OnSearchError(kind) ==
    [pc |-> "failed", error |-> [call |-> "search_messages", kind |-> kind]]

\* fetch_message_details catches SlackApiError only: any other exception
\* leaves it, and search_and_analyze with it; main prints it and exits
OnFetchException ==
    [pc |-> "failed", error |-> [call |-> "conversations_history", kind |-> "Exception"]]

\* a variant that assigns the record instead of appending it
AppendDetail_Assign(list, detail) ==
    IF IsSome(detail) THEN <<The(detail)>> ELSE list

\* `if message_detail: messages_with_reactions.append(message_detail)`
AppendDetail(list, detail) ==
    IF IsSome(detail) THEN Append(list, The(detail)) ELSE list

\* a variant that goes on without a date restriction
OnDateError_Ignore == [pc |-> "search", error |-> NoError]

\* main: `except ValueError as e: print(...); sys.exit(1)`
OnDateError ==
    [pc |-> "failed", error |-> [call |-> "build_date_query", kind |-> "ValueError"]]

\* main up to the call of search_and_analyze: date_query = build_date_query(args)
BuildQuery ==
    /\ pc = "main"
    /\ LET built == build_date_query(args, today) IN
       IF built.ok
       THEN /\ date_query' = Some(built.query)
            /\ pc' = "search"
            /\ UNCHANGED <<error, date_error>>
       ELSE /\ date_error' = built.error
            /\ pc' = OnDateError.pc
            /\ error' = OnDateError.error
            /\ UNCHANGED date_query
    /\ twin' = [twin EXCEPT !.pc = pc']
    /\ UNCHANGED <<max_results, target_emoji, all_matches, page, calls, lastPage, i,
                   details, messages_with_reactions, last, notices,
                   users_info_calls, result, msgOutcomes, remote, args, today>>

\* one iteration of the while loop on a run in state `run`, answered `response`
LoopIteration(run, target, response) ==
    LET req == SearchRequest(run.all_matches, target, run.page)
        total_matches == ReadTotal(response)
        matches == ReadMatches(response)
        acc == run.all_matches \o matches
        stop == LoopBreaks(matches, req.count, acc, target)
    IN  [pc |-> IF stop THEN "truncate" ELSE "search",
         all_matches |-> acc,
         page |-> IF stop THEN run.page ELSE run.page + 1,
         calls |-> Append(run.calls, req),
         total |-> total_matches]

\* the second run takes the same step on its own state, when it is in the loop
TwinIteration(target, response) ==
    IF twin.pc = "search" /\ Len(twin.all_matches) < target
    THEN LoopIteration(twin, target, response)
    ELSE twin

\* one iteration of the while loop whose search_messages call returns
SearchPage ==
    /\ pc = "search"
    /\ Len(all_matches) < max_results
    /\ LET req == SearchRequest(all_matches, max_results, page) IN
       \E n \in PagesOffered(remote, req) :
       \E t1, t2 \in ReportedTotals(remote.totals, Len(all_matches) + n) :
          LET served == ServedMatches(req, n)
              run == [pc |-> pc, all_matches |-> all_matches, page |-> page,
                      calls |-> calls, total |-> lastPage.total]
              after == LoopIteration(run, max_results,
                                     [total |-> t1, matches |-> served])
          IN  /\ calls' = after.calls
              /\ all_matches' = after.all_matches
              /\ lastPage' = [requested |-> req.count, returned |-> n,
                              accumulated |-> Len(after.all_matches),
                              total |-> after.total]
              /\ page' = after.page
              /\ pc' = after.pc
              /\ twin' = TwinIteration(max_results, [total |-> t2, matches |-> served])
    /\ UNCHANGED <<max_results, target_emoji, i, details, messages_with_reactions,
                   last, notices, users_info_calls, error, result, msgOutcomes,
                   remote, args, today, date_query, date_error>>

\* one iteration of the while loop whose search_messages call raises
SearchFails ==
    /\ pc = "search"
    /\ Len(all_matches) < max_results
    /\ \E kind \in {"SlackApiError", "Exception"} :
          /\ calls' = Append(calls, SearchRequest(all_matches, max_results, page))
          /\ pc' = OnSearchError(kind).pc
          /\ error' = OnSearchError(kind).error
          /\ twin' = IF twin.pc = "search" /\ Len(twin.all_matches) < max_results
                     THEN [twin EXCEPT
                             !.calls = Append(@, SearchRequest(twin.all_matches,
                                                       max_results, twin.page)),
                             !.pc = OnSearchError(kind).pc]
                     ELSE twin
    /\ UNCHANGED <<max_results, target_emoji, all_matches, page, lastPage, i,
                   details, messages_with_reactions, last, notices,
                   users_info_calls, result, msgOutcomes, remote, args, today,
                   date_query, date_error>>

\* the loop is left (break, or the while condition is false):
\* all_matches = all_matches[:max_results]
Truncate ==
    /\ \/ pc = "truncate"
       \/ pc = "search" /\ Len(all_matches) >= max_results
    /\ all_matches' = SlicePrefix(all_matches, max_results)
    /\ pc' = "resolve"
    /\ twin' = IF \/ twin.pc = "truncate"
                  \/ twin.pc = "search" /\ Len(twin.all_matches) >= max_results
               THEN [twin EXCEPT !.all_matches = SlicePrefix(@, max_results),
                                 !.pc = "resolve"]
               ELSE twin
    /\ UNCHANGED <<max_results, target_emoji, page, calls, lastPage, i, details,
                   messages_with_reactions, last, notices, users_info_calls,
                   error, result, msgOutcomes, remote, args, today, date_query,
                   date_error>>

\* one iteration of the for loop: fetch_message_details on the next match
FetchMessage ==
    /\ pc = "resolve"
    /\ i < Len(all_matches)
    /\ \E answer \in msgOutcomes :
          LET resp == answer.resp
              lookup == answer.lookup
              r == fetch_message_details(resp, lookup, all_matches[i + 1], target_emoji)
          IN  /\ i' = i + 1
              /\ users_info_calls' = users_info_calls + r.lookups
              /\ notices' = notices + (IF r.notice THEN 1 ELSE 0)
              /\ last' = [resp |-> resp, lookup |-> lookup,
                          detail |-> r.detail, notice |-> r.notice]
              /\ IF r.raised
                 THEN /\ pc' = OnFetchException.pc
                      /\ error' = OnFetchException.error
                      /\ UNCHANGED <<details, messages_with_reactions>>
                 ELSE /\ details' = Append(details, r.detail)
                      /\ messages_with_reactions' =
                            AppendDetail(messages_with_reactions, r.detail)
                      /\ UNCHANGED <<pc, error>>
    /\ UNCHANGED <<max_results, target_emoji, all_matches, page, calls, lastPage,
                   result, msgOutcomes, remote, twin, args, today, date_query,
                   date_error>>

\* after the for loop: sort in place and return the list
Return ==
    /\ pc = "resolve"
    /\ i = Len(all_matches)
    /\ messages_with_reactions' = SortByCountDesc(messages_with_reactions)
    /\ result' = Some(SortByCountDesc(messages_with_reactions))
    /\ pc' = "done"
    /\ UNCHANGED <<max_results, target_emoji, all_matches, page, calls, lastPage,
                   i, details, last, notices, users_info_calls, error, msgOutcomes,
                   remote, twin, args, today, date_query, date_error>>

Next == BuildQuery \/ SearchPage \/ SearchFails \/ Truncate \/ FetchMessage \/ Return

Spec == Init /\ [][Next]_vars
SpecFetch == InitFetch /\ [][Next]_vars
SpecPaging == InitPaging /\ [][Next]_vars
SpecTotals == InitTotals /\ [][Next]_vars
SpecList == InitList /\ [][Next]_vars
SpecDates == InitDates /\ [][Next]_vars
\* the pipeline is one sequential thread: it takes its next step whenever it
\* has one (every remote call returns or raises)
SpecTargets == InitTargets /\ [][Next]_vars /\ WF_vars(Next)

(***************************************************************************)
(* Properties of the pagination loop.                                      *)
(***************************************************************************)
\* C1: every search call asks for min(100, target - accumulated) items,
\* sorted by timestamp, descending; the k-th call of a run asks for page k;
\* every requested count lies in 1..100.
C1_SearchRequests ==
    [][Len(calls') = Len(calls) + 1 =>
          LET k == Len(calls')
              call == calls'[k]
              wanted == max_results - Len(all_matches)
          IN  /\ call.count = (IF wanted < 100 THEN wanted ELSE 100)
              /\ call.count \in 1..100
              /\ call.sort = "timestamp"
              /\ call.sort_dir = "desc"
              /\ call.page = k
              /\ SubSeq(calls', 1, k - 1) = calls]_vars

\* a run of target 150 whose second call asks for 50 items of page 2
C1_Witness ==
    /\ max_results = 150
    /\ Len(calls) = 2
    /\ calls[1].count = 100 /\ calls[1].page = 1
    /\ calls[2].count = 50 /\ calls[2].page = 2

\* C2: after a page is answered the loop stops exactly when the page held
\* fewer matches than requested or the accumulator has reached the target;
\* otherwise it has advanced to the next page, where the next call is due.
\* No search call is issued once the loop has stopped.
C2_LoopStops ==
    lastPage # NoPage =>
        LET short == lastPage.returned < lastPage.requested
            reached == lastPage.accumulated >= max_results
            searchFailed == error.call = "search_messages"
        IN  IF short \/ reached
            THEN /\ pc \in {"truncate", "resolve", "done", "failed"}
                 /\ ~searchFailed
                 /\ Len(calls) = page
            ELSE /\ pc = "search" \/ searchFailed
                 /\ Len(all_matches) < max_results
                 /\ page = Len(calls) + (IF searchFailed THEN 0 ELSE 1)
                 /\ page >= 2

\* the loop went on after a full first page and stopped on a short second one
C2_Witness ==
    /\ pc = "truncate"
    /\ Len(calls) = 2
    /\ lastPage.returned < lastPage.requested
    /\ lastPage.returned > 0
    /\ lastPage.accumulated < max_results

\* C3: the matches handed to the per-message resolution are the first
\* min(target, accumulated) of the accumulator: never more than the target,
\* and exactly the target when at least that many were accumulated.
C3_Truncated ==
    (pc \in {"resolve", "done"} \/ error.call = "conversations_history") =>
        /\ Len(all_matches) <= max_results
        /\ i <= max_results
        /\ IF lastPage.accumulated >= max_results
           THEN Len(all_matches) = max_results
           ELSE Len(all_matches) = lastPage.accumulated

\* a last page that held more than was requested was cut back to the target
C3_Witness ==
    /\ pc = "resolve"
    /\ lastPage.returned > lastPage.requested
    /\ lastPage.accumulated > max_results
    /\ Len(all_matches) = max_results
    /\ Len(calls) = 2

\* C4: a failing search call ends the run with that error: no later search
\* call, no message or user lookup for the matches of earlier pages, and no
\* result.
C4_SearchFailureAborts ==
    error.call = "search_messages" =>
        /\ pc = "failed"
        /\ Len(calls) = page
        /\ i = 0
        /\ details = <<>>
        /\ users_info_calls = 0
        /\ result = None

\* the second search call failed after a first page of 100 matches
C4_Witness ==
    /\ error.call = "search_messages"
    /\ Len(calls) = 2
    /\ Len(all_matches) = 100

(***************************************************************************)
(* Properties of the per-message resolution.                               *)
(***************************************************************************)
\* the fetched message carries a reaction of the target name
CarriesTarget(resp, emoji) ==
    /\ resp.kind = "ok"
    /\ Len(resp.messages) > 0
    /\ IsSome(resp.messages[1].reactions)
    /\ \E k \in 1..Len(The(resp.messages[1].reactions)) :
          The(resp.messages[1].reactions)[k].name = emoji

\* C5: a failing message never aborts the batch: whatever the fetch of a
\* message does (answers, answers with no message, raises a remote error,
\* raises any other error), the message counts as absent, every remaining
\* match is still resolved and the ranked list is returned.
C5_FailingMessageNeverAborts ==
    /\ i > 0 =>
          /\ pc # "failed"
          /\ Len(details) = i
          /\ last.resp.kind # "ok" => details[i] = None
    /\ pc = "done" => i = Len(all_matches) /\ IsSome(result)

\* C6: a message fetch that fails with a remote error resolves to absent,
\* and prints a notice exactly when the error is not "channel_not_found".
C6_RemoteErrorNotice ==
    (i > 0 /\ last.resp.kind = "api_error") =>
        /\ last.detail = None
        /\ details = <<None>>
        /\ pc # "failed"
        /\ notices = (IF last.resp.error = "channel_not_found" THEN 0 ELSE 1)
        /\ last.notice <=> last.resp.error # "channel_not_found"

\* a channel_not_found failure that printed nothing
C6_Witness ==
    /\ i = 1
    /\ last.resp.kind = "api_error"
    /\ last.resp.error = "channel_not_found"
    /\ notices = 0
    /\ details = <<None>>

\* C7: a record is returned exactly when the fetched message exists, has a
\* reaction list and the list has an entry of the target name; its count is
\* the count of the first such entry.
C7_RecordIffTargetReaction ==
    i > 0 =>
        /\ IsSome(last.detail) <=> CarriesTarget(last.resp, target_emoji)
        /\ IsSome(last.detail) =>
              LET reactions == The(last.resp.messages[1].reactions) IN
              \E k \in 1..Len(reactions) :
                 /\ reactions[k].name = target_emoji
                 /\ \A j \in 1..(k - 1) : reactions[j].name # target_emoji
                 /\ The(last.detail).count = reactions[k].count

\* two entries of the target name with different counts: the first one counts
C7_Witness ==
    /\ i = 1
    /\ IsSome(last.detail)
    /\ LET reactions == The(last.resp.messages[1].reactions) IN
          /\ Len(reactions) = 2
          /\ reactions[1].name = target_emoji
          /\ reactions[2].name = target_emoji
          /\ reactions[1].count # reactions[2].count
          /\ The(last.detail).count = reactions[1].count

\* C8: when the target reaction is present and the user lookup fails, the
\* record is still returned, its author is the raw author identifier of the
\* message, and nothing is reported.
C8_LookupFailureFallsBack ==
    (i > 0 /\ CarriesTarget(last.resp, target_emoji) /\ last.lookup = "fail") =>
        /\ IsSome(last.detail)
        /\ The(last.detail).user = AuthorId(last.resp.messages[1])
        /\ ~last.notice
        /\ notices = 0
        /\ pc # "failed"
        /\ details = <<last.detail>>

\* a failed lookup of a named author: the record carries the identifier
C8_Witness ==
    /\ i = 1
    /\ CarriesTarget(last.resp, target_emoji)
    /\ last.lookup = "fail"
    /\ last.resp.messages[1].user = Some("U12345")
    /\ IsSome(last.detail)
    /\ The(last.detail).user = "U12345"
    /\ users_info_calls = 1

(***************************************************************************)
(* Properties of the ranked result.                                        *)
(***************************************************************************)
\* the records of the non-absent resolutions, in the order of the matches
Resolved(ds) ==
    LET some == SelectSeq(ds, IsSome)
    IN  SubSeq([k \in 1..Len(some) |-> The(some[k])], 1, Len(some))

\* the subsequence of the records of count c
OfCount(records, c) == LET Has(r) == r.count = c IN SelectSeq(records, Has)

\* C9: the result is ordered by count, non-increasing, and records of equal
\* count keep the order in which their matches were accumulated.
C9_SortedStable ==
    pc = "done" =>
        LET ranked == The(result) IN
        /\ \A a, b \in 1..Len(ranked) : a < b => ranked[a].count >= ranked[b].count
        /\ \A c \in Counts : OfCount(ranked, c) = OfCount(Resolved(details), c)

\* two records of equal count ahead of a record of a larger count
C9_Witness ==
    /\ pc = "done"
    /\ Len(details) = 3
    /\ \A k \in 1..3 : IsSome(details[k])
    /\ The(details[1]).count = The(details[2]).count
    /\ The(details[3]).count > The(details[1]).count
    /\ The(result) = <<The(details[3]), The(details[1]), The(details[2])>>

\* the number of times r occurs in records
Occurrences(records, r) == Cardinality({k \in 1..Len(records) : records[k] = r})

\* C10: the result is a reordering of exactly the non-absent resolutions of
\* the truncated matches, one record per qualifying match; it is never longer
\* than the number of qualifying matches nor than the target.
C10_ResultIsQualifying ==
    pc = "done" =>
        LET ranked == The(result)
            resolved == Resolved(details)
            qualifying == {k \in 1..Len(details) : IsSome(details[k])}
        IN  /\ Len(details) = Len(all_matches)
            /\ Len(ranked) = Cardinality(qualifying)
            /\ Len(ranked) <= Len(all_matches)
            /\ Len(ranked) <= max_results
            /\ \A k \in 1..Len(ranked) :
                  Occurrences(ranked, ranked[k]) = Occurrences(resolved, ranked[k])
            /\ \A k \in 1..Len(resolved) :
                  Occurrences(ranked, resolved[k]) = Occurrences(resolved, resolved[k])
            /\ ranked = messages_with_reactions

\* three matches of which the first and the last qualify
C10_Witness ==
    /\ pc = "done"
    /\ Len(details) = 3
    /\ IsSome(details[1]) /\ ~IsSome(details[2]) /\ IsSome(details[3])
    /\ Len(The(result)) = 2

(***************************************************************************)
(* Further properties of the pagination loop.                              *)
(***************************************************************************)
\* C11: the total the endpoint reports never decides termination: a second
\* run with the same target, served the same pages of matches but told other
\* totals, issues the same calls, accumulates the same matches and leaves the
\* loop at the same page.
C11_TotalNeverDecides ==
    /\ twin.calls = calls
    /\ twin.all_matches = all_matches
    /\ twin.page = page
    /\ twin.pc \in {"search", "truncate", "failed"} => twin.pc = pc

\* two runs past their second page, one told a total of 0 and the other a
\* total above what it has accumulated
C11_Witness ==
    /\ pc = "truncate"
    /\ Len(calls) = 2
    /\ lastPage.returned = lastPage.requested
    /\ lastPage.total = 0
    /\ twin.total > lastPage.accumulated
    /\ twin.calls = calls

\* C17: against an endpoint serving a fixed newest-first list in pages of
\* the requested size, the matches accumulated are exactly the first
\* min(target, length) items of the list, in order, none twice and none
\* skipped.
C17_PrefixOfList ==
    (IsSome(remote.list) /\ pc \in {"resolve", "done"}) =>
        LET n == Min(max_results, The(remote.list))
        IN  /\ Len(all_matches) = n
            /\ \A k \in 1..n : all_matches[k] = k

\* C18: the loop ends after at most ceil(target / 100) search calls, whatever
\* the pages hold, and the run comes to its end; a target of 0 or less makes
\* no call and gives the empty result.
C18_LoopTerminates ==
    /\ [](/\ max_results >= 1 =>
                Len(calls) * API_MAX_PER_PAGE < max_results + API_MAX_PER_PAGE
          /\ max_results <= 0 =>
                /\ calls = <<>>
                /\ all_matches = <<>>
                /\ pc # "failed"
                /\ pc = "done" => result = Some(<<>>))
    /\ <>(pc \in {"done", "failed"})

\* a target of 201 met with three calls
C18_Witness ==
    /\ pc = "done"
    /\ max_results = 2 * API_MAX_PER_PAGE + 1
    /\ Len(calls) = 3
    /\ Len(all_matches) = max_results

(***************************************************************************)
(* A further property of the per-message resolution.                       *)
(***************************************************************************)
\* C16: a record carries the message's text, or the placeholder when the
\* message has no text or an empty one.
C16_TextOrPlaceholder ==
    (i > 0 /\ IsSome(last.detail)) =>
        LET text == last.resp.messages[1].text
        IN  The(last.detail).text =
                (IF text = None \/ text = Some("") THEN NO_TEXT ELSE The(text))
(***************************************************************************)
(* Properties of build_date_query and of main's use of it.                 *)
(***************************************************************************)
\* start and end days given directly, both valid: no --on and no --days
DirectDays(a) ==
    /\ ~Given(a.on)
    /\ a.days = None
    /\ Given(a.after) /\ IsSome(strptime(The(a.after)))
    /\ Given(a.before) /\ IsSome(strptime(The(a.before)))
StartDay(a) == The(strptime(The(a.after)))
EndDay(a) == The(strptime(The(a.before)))

\* C12: valid start and end days given directly that are the same day yield
\* the single-day fragment on:<day> for that day, never a fragment with
\* after: or before:.
C12_SameDayCollapses ==
    (pc # "main" /\ DirectDays(args) /\ StartDay(args) = EndDay(args)) =>
        /\ IsSome(date_query)
        /\ The(date_query) = <<Term("on", The(args.after))>>
        /\ strptime(The(date_query)[1].day) = Some(EndDay(args))
        /\ \A k \in 1..Len(The(date_query)) : The(date_query)[k].op = "on"

\* the same day typed as 2024-3-1 and as 2024-03-01
C12_Witness ==
    /\ pc # "main"
    /\ args.days = None
    /\ args.after = Some(DateText(2024, 3, 1, FALSE))
    /\ args.before = Some(DateText(2024, 3, 1, TRUE))
    /\ date_query = Some(<<Term("on", DateText(2024, 3, 1, FALSE))>>)

\* C13: valid start and end days given directly: a start after the end fails
\* with the ordering error carrying both dates as typed and no fragment; a
\* start before the end yields exactly after:<start> before:<end>.
C13_OrderChecked ==
    (pc # "main" /\ DirectDays(args)) =>
        /\ StartDay(args) > EndDay(args) =>
                /\ date_query = None
                /\ date_error = [field |-> "order",
                                 values |-> <<The(args.after), The(args.before)>>]
                /\ pc = "failed"
        /\ StartDay(args) < EndDay(args) =>
                /\ date_query = Some(<<Term("after", The(args.after)),
                                       Term("before", The(args.before))>>)
                /\ date_error = NoDateError

\* an ordering error was raised, and elsewhere a two-day range was returned
C13_Witness ==
    /\ pc = "failed"
    /\ DirectDays(args)
    /\ args.after = Some(DateText(2024, 3, 1, FALSE))
    /\ args.before = Some(DateText(2024, 2, 29, TRUE))
    /\ date_error.values = <<DateText(2024, 3, 1, FALSE), DateText(2024, 2, 29, TRUE)>>

\* C14: whenever --days is given without --on, for every integer value of it,
\* the fragment is the trailing window: after:<end - days> before:<end> with
\* a valid end day, after:<now - days> alone without an end day.
C14_TrailingWindow ==
    (pc # "main" /\ ~Given(args.on) /\ IsSome(args.days)) =>
        IF args.before = None
        THEN date_query = Some(<<Term("after", strftime(today - The(args.days)))>>)
        ELSE IsSome(strptime(The(args.before))) =>
                date_query =
                    Some(<<Term("after",
                                strftime(The(strptime(The(args.before))) - The(args.days))),
                           Term("before", The(args.before))>>)

\* C15: in every run in which build_date_query fails, the run ends in failure
\* and no search, message-fetch or user-lookup call is issued.
C15_DateErrorAborts ==
    (pc # "main" /\ ~build_date_query(args, today).ok) =>
        /\ pc = "failed"
        /\ error.call = "build_date_query"
        /\ calls = <<>>
        /\ i = 0
        /\ users_info_calls = 0
        /\ result = None

\* a run that ended on a start day after the end day
C15_Witness ==
    /\ pc = "failed"
    /\ error.call = "build_date_query"
    /\ date_error.field = "order"
    /\ calls = <<>>

\* C19: in every fragment returned with both an after: and a before:
\* restriction, the after day is strictly earlier than the before day.
C19_AfterEarlierThanBefore ==
    IsSome(date_query) =>
        \A j, k \in 1..Len(The(date_query)) :
            (The(date_query)[j].op = "after" /\ The(date_query)[k].op = "before") =>
                The(strptime(The(date_query)[j].day)) <
                    The(strptime(The(date_query)[k].day))

====
